---- MODULE Spec2Model ----
(***************************************************************************)
(* State-machine model of the swift-repl turn engine (src/REPL.cpp):       *)
(* REPL::ExecuteSwift, REPL::CompileSourceFileToIRAndAddToJIT,             *)
(* REPL::RemoveRedeclarationsFromJIT and REPL::UpdateFunctionPointers,     *)
(* together with the JIT and the IR transforms they call.                  *)
(*                                                                         *)
(* Names.  A std::string used as a key of m_decl_map, m_fn_ptr_map or the  *)
(* JIT symbol table is a triple <<base, n, sig>>: sig = 0 is the unmangled *)
(* identifier base+n, sig > 0 the mangled symbol of the function base+n    *)
(* with signature sig.  The empty string is <<>>.                          *)
(***************************************************************************)
EXTENDS Integers, Sequences, FiniteSets, TLC

\* Bounds of the exploration.
MaxTurns == 2
MaxDecls == 2
MaxBlank == 1

VARIABLES
    m_is_playground,      \* REPL::m_is_playground
    m_curr_input_number,  \* REPL::m_curr_input_number
    hadAnyError,          \* m_diagnostic_engine.hadAnyError()
    m_decl_map,           \* REPL::m_decl_map: key -> index of a SourceFile in units
    units,                \* the SourceFile objects created at REPL.cpp:260, each [Decls]
    m_fn_ptr_map,         \* REPL::m_fn_ptr_map: function symbol -> name of its slot
    jit_symbols,          \* JIT: bound function/variable symbol -> address (the body linked)
    jit_mem,              \* JIT: bound slot global -> the address stored in it (0 = unset)
    jit_modules,          \* JIT: the modules linked so far, kept for the process lifetime
    pc,                   \* "prompt": between turns; "decls": in the loop of REPL.cpp:218;
                          \* "stopped": ExecuteSwift returned false
    line,                 \* the argument of the running/last ExecuteSwift
    frontend_diag,        \* the frontend reported an error for the running/last turn
    module_name,          \* input.module_name of the running/last turn
    Decls,                \* tmp_src_file->Decls of the running/last turn
    idx,                  \* position of the loop of REPL.cpp:218 in Decls
    res_fn,               \* the local res_fn (<<>> = nullptr), as its mangled symbol
    ret,                  \* value returned by the last ExecuteSwift: "true", "false", or
                          \* "none" while it runs and before the first call
    last,                 \* what the last loop iteration did with its declaration
    invoked,              \* entry wrapper called by result_fn() in the last turn (<<>> = none)
    redefined,            \* function symbol -> body of its last successful (re)definition, 0 if
                          \* the last attempt to define it did not link and patch
    blank_lines,          \* empty lines GetLine read before the line of the running/last turn
    module_names          \* the module names AddToSrcMgr has generated, oldest first

vars == <<m_is_playground, m_curr_input_number, hadAnyError, m_decl_map, units,
          m_fn_ptr_map, jit_symbols, jit_mem, jit_modules, pc, line, frontend_diag,
          module_name, Decls, idx, res_fn, ret, last, invoked, redefined, blank_lines,
          module_names>>

\* The registries and the JIT bindings: what a turn may commit.
core == <<m_decl_map, units, m_fn_ptr_map, jit_symbols, jit_mem, jit_modules>>

-----------------------------------------------------------------------------
(* Strings and names *)

EmptyString == <<>>
NoFn == <<>>

UnmangledKey(base, n) == <<base, n, 0>>

\* ASTMangler::mangleEntity: deterministic, distinct across overloads.
mangleEntity(decl) == <<decl.name[1], decl.name[2], decl.sig>>

\* fn_decl->getName() / v_decl->getBaseName().getIdentifier()
getName(decl) == UnmangledKey(decl.name[1], decl.name[2])

\* Name of the pointer-sized slot of a function symbol.
SlotName(sym) == <<"ptr">> \o sym

GetLine_FirstLine(stdin) == [result |-> Head(stdin), blank |-> 0]

\* REPL::GetLine on the lines std::getline delivers, stdin: the do-while reads until
\* a line is not empty.  result: the line returned; blank: the empty lines read.
RECURSIVE GetLine(_)
GetLine(stdin) ==
    IF Head(stdin) # ""
    THEN [result |-> Head(stdin), blank |-> 0]
    ELSE LET rest == GetLine(Tail(stdin))
         IN  [result |-> rest.result, blank |-> rest.blank + 1]

IsExitString_OnlyExit(l) == l = "exit"

IsExitString(l) == l = "e" \/ l = "exit"

\* stream << "__repl_" << m_curr_input_number
AddToSrcMgr(n) == [module_name |-> <<"__repl_", n>>]

CHECK_ERROR_Never(flag) == FALSE

\* The macro CHECK_ERROR: leave the function when the engine had an error.
CHECK_ERROR(flag) == flag

-----------------------------------------------------------------------------
(* What the frontend delivers for a line: tmp_src_file->Decls after ModifyAST. *)

\* A declaration: kind "func" (swift::FuncDecl), "var" (any other swift::ValueDecl)
\* or "import" (not a ValueDecl); body identifies the text it was parsed from (the
\* number of the turn); calls are the function symbols its code calls.
FuncDecl(base, sig, calls, n) ==
    [kind |-> "func", name |-> <<base, 0>>, sig |-> sig, calls |-> calls, body |-> n]

VarDecl(base, n) ==
    [kind |-> "var", name |-> <<base, 0>>, sig |-> 0, calls |-> {}, body |-> n]

ImportDecl(n) ==
    [kind |-> "import", name |-> <<"Lib", 0>>, sig |-> 0, calls |-> {}, body |-> n]

\* WrapInFunction: the entry wrapper is a function named like the turn's module.
WrapperDecl(calls, n) ==
    [kind |-> "func", name |-> AddToSrcMgr(n).module_name, sig |-> 1, calls |-> calls,
     body |-> n]

SymF1 == <<"f", 0, 1>>
SymG1 == <<"g", 0, 1>>

\* g calls f and is recursive: its code calls g itself.
DeclChoices(n) ==
    {FuncDecl("f", 1, {}, n), FuncDecl("f", 2, {}, n), FuncDecl("g", 1, {SymF1, SymG1}, n),
     VarDecl("f", n), ImportDecl(n)}
    \cup {WrapperDecl(c, n) : c \in {{}, {SymF1}}}

IsValueDecl(decl) == decl.kind # "import"

IsFuncDecl(decl) == decl.kind = "func"

\* The key a declaration is linked under: line 236 for a function, line 250 otherwise.
DeclName(decl) == IF IsFuncDecl(decl) THEN mangleEntity(decl) ELSE getName(decl)

\* The type checker accepts a declaration list when no symbol is declared twice in it
\* and every called function is declared in it or by an earlier turn (m_imports).
TypeChecks(ds) ==
    /\ \A i, j \in DOMAIN ds : i # j => DeclName(ds[i]) # DeclName(ds[j])
    /\ \A i \in DOMAIN ds : \A t \in ds[i].calls :
           \/ t \in DOMAIN m_decl_map
           \/ \E j \in DOMAIN ds : IsFuncDecl(ds[j]) /\ mangleEntity(ds[j]) = t

Programs(n) ==
    {ds \in UNION {[1..k -> DeclChoices(n)] : k \in 0..MaxDecls} : TypeChecks(ds)}

\* What ExecuteSwift may be handed as turn n, with the frontend's answer: an exit
\* token (the frontend is not run), a line with an error (whatever was parsed of it
\* is in decls), a line that type checks.
Inputs(n) ==
    {[line |-> l, diag |-> FALSE, decls |-> <<>>] : l \in {"e", "exit"}}
    \cup {[line |-> "E", diag |-> TRUE, decls |-> ds] :
             ds \in {p \in Programs(n) : Len(p) = 1}}
    \cup {[line |-> "src", diag |-> FALSE, decls |-> ds] : ds \in Programs(n)}

-----------------------------------------------------------------------------
(* std::map helpers *)

MapPut(f, k, v) == [x \in DOMAIN f \cup {k} |-> IF x = k THEN v ELSE f[x]]

MapErase(f, k) == [x \in DOMAIN f \ {k} |-> f[x]]

\* Order of std::map<std::string, ...> on the keys of the model: the mangled names
\* compare by identifier, then by signature.
BaseRank(b) == CASE b = "f" -> 1 [] b = "g" -> 2 [] b = "__repl_" -> 3 [] OTHER -> 4

KeyLess(a, b) ==
    \/ BaseRank(a[1]) < BaseRank(b[1])
    \/ BaseRank(a[1]) = BaseRank(b[1]) /\ a[2] < b[2]
    \/ BaseRank(a[1]) = BaseRank(b[1]) /\ a[2] = b[2] /\ a[3] < b[3]

RECURSIVE SortedKeys(_)
SortedKeys(S) ==
    IF S = {} THEN <<>>
    ELSE LET m == CHOOSE x \in S : \A y \in S \ {x} : KeyLess(x, y)
         IN  <<m>> \o SortedKeys(S \ {m})

-----------------------------------------------------------------------------
(* The JIT: LookupSymbol, RemoveSymbol, AddModule *)

\* Address of a bound function: the body linked for it; of a slot global: the slot.
LookupSymbol(symbols, mem, name) ==
    IF name \in DOMAIN symbols THEN [found |-> TRUE, address |-> symbols[name]]
    ELSE IF name \in DOMAIN mem THEN [found |-> TRUE, address |-> name]
    ELSE [found |-> FALSE, address |-> 0]

\* fault: the JIT cannot remove a symbol it has bound.
RemoveSymbol(symbols, name, fault) ==
    IF name \notin DOMAIN symbols
    THEN [err |-> "SymbolsNotFound", symbols |-> symbols]
    ELSE IF fault
    THEN [err |-> "SymbolsCouldNotBeRemoved", symbols |-> symbols]
    ELSE [err |-> "success", symbols |-> MapErase(symbols, name)]

\* addUnit links a unit unless the JIT refuses it (fault) or one of the unit's
\* definitions is already bound (duplicate symbol).  A reference of the unit to a
\* symbol that is not bound yet does not make the link fail.
Links(symbols, mem, module, fault) ==
    /\ ~fault
    /\ (module.functions \cup module.globals) \cap DOMAIN symbols = {}
    /\ module.slots \cap DOMAIN mem = {}

\* The linker fixes a direct call to the implementation its target symbol is bound
\* to; a direct call whose target is not bound yet (direct_to = 0) is fixed when the
\* target gets bound.  Once fixed, a direct call is not touched again.
BindDirectCalls(modules, symbols) ==
    {[m EXCEPT !.calls =
         {IF ~c.indirect /\ c.direct_to = 0 /\ c.target \in DOMAIN symbols
          THEN [c EXCEPT !.direct_to = symbols[c.target]] ELSE c : c \in m.calls}] :
       m \in modules}

\* modules: the modules linked so far.
AddModule(symbols, mem, modules, module, fault) ==
    IF Links(symbols, mem, module, fault)
    THEN LET defs == module.functions \cup module.globals
             syms == [x \in DOMAIN symbols \cup defs |->
                         IF x \in defs THEN module.body ELSE symbols[x]]
             unit == [functions |-> module.functions, body |-> module.body,
                      calls |-> {[target |-> c.target, indirect |-> c.indirect,
                                  slot |-> c.slot, direct_to |-> 0] :
                                 c \in module.calls}]
         IN  [ok |-> TRUE,
              symbols |-> syms,
              mem |-> [x \in DOMAIN mem \cup module.slots |->
                          IF x \in DOMAIN mem THEN mem[x] ELSE 0],
              modules |-> BindDirectCalls(modules \cup {unit}, syms)]
    ELSE [ok |-> FALSE, symbols |-> symbols, mem |-> mem, modules |-> modules]

-----------------------------------------------------------------------------
(* The IR transforms *)

\* New table entries get their slot: a global defined by the module being compiled.
AddFunctionPointers(fn_ptr_map) ==
    [fn_ptr_map |-> [s \in DOMAIN fn_ptr_map |->
                        IF fn_ptr_map[s] = EmptyString THEN SlotName(s) ELSE fn_ptr_map[s]],
     slots |-> {SlotName(s) : s \in {t \in DOMAIN fn_ptr_map : fn_ptr_map[t] = EmptyString}}]

\* A call whose target is in the table loads the slot and calls through it.
ReplaceFunctionCallsWithIndirectFunctionCalls(calls, fn_ptr_map) ==
    {[target |-> t,
      indirect |-> t \in DOMAIN fn_ptr_map,
      slot |-> IF t \in DOMAIN fn_ptr_map THEN fn_ptr_map[t] ELSE EmptyString] : t \in calls}

-----------------------------------------------------------------------------
(* REPL::RemoveRedeclarationsFromJIT *)

RECURSIVE RemoveLoop_SkipOnError(_, _, _, _, _)
RemoveLoop_SkipOnError(fns, fn_ptr_map, symbols, fault, events) ==
    IF fns = <<>> THEN [fn_ptr_map |-> fn_ptr_map, symbols |-> symbols, events |-> events]
    ELSE LET name == Head(fns)
             rm == RemoveSymbol(symbols, name, fault)
         IN  RemoveLoop_SkipOnError(Tail(fns),
                        IF name \notin DOMAIN fn_ptr_map /\ rm.err = "success"
                        THEN MapPut(fn_ptr_map, name, EmptyString) ELSE fn_ptr_map,
                        rm.symbols, fault,
                        Append(events, <<"remove", name, rm.err>>))

RECURSIVE RemoveLoop(_, _, _, _, _)
RemoveLoop(fns, fn_ptr_map, symbols, fault, events) ==
    IF fns = <<>> THEN [fn_ptr_map |-> fn_ptr_map, symbols |-> symbols, events |-> events]
    ELSE LET name == Head(fns)
             rm == RemoveSymbol(symbols, name, fault)
         IN  RemoveLoop(Tail(fns),
                        IF name \notin DOMAIN fn_ptr_map
                        THEN MapPut(fn_ptr_map, name, EmptyString) ELSE fn_ptr_map,
                        rm.symbols, fault,
                        Append(events, <<"remove", name, rm.err>>))

RemoveRedeclarationsFromJIT_WholeTable(fns, fn_ptr_map, symbols, fault) ==
    RemoveLoop(SortedKeys(fns \cup DOMAIN fn_ptr_map), fn_ptr_map, symbols, fault, <<>>)

\* fns: the functions of llvm_module that are definitions with external linkage.
RemoveRedeclarationsFromJIT(fns, fn_ptr_map, symbols, fault) ==
    RemoveLoop(SortedKeys(fns), fn_ptr_map, symbols, fault, <<>>)

-----------------------------------------------------------------------------
(* REPL::UpdateFunctionPointers *)

RECURSIVE UpdateLoop(_, _, _, _, _)
UpdateLoop(names, fn_ptr_map, symbols, mem, events) ==
    IF names = <<>> THEN [err |-> FALSE, mem |-> mem, events |-> events]
    ELSE LET name == Head(names)
             fn == LookupSymbol(symbols, mem, name)
             ptr == LookupSymbol(symbols, mem, fn_ptr_map[name])
         IN  IF fn.found
             THEN IF ptr.found
                  THEN UpdateLoop(Tail(names), fn_ptr_map, symbols,
                                  [mem EXCEPT ![ptr.address] = fn.address],
                                  Append(events, <<"patch", name, fn.address>>))
                  ELSE [err |-> TRUE, mem |-> mem,
                        events |-> Append(events, <<"lookup_failed", fn_ptr_map[name], 0>>)]
             ELSE [err |-> TRUE, mem |-> mem,
                   events |-> Append(events, <<"lookup_failed", name, 0>>)]

UpdateFunctionPointers(fn_ptr_map, symbols, mem) ==
    UpdateLoop(SortedKeys(DOMAIN fn_ptr_map), fn_ptr_map, symbols, mem, <<>>)

-----------------------------------------------------------------------------
(* REPL::CompileSourceFileToIRAndAddToJIT *)

\* Outcomes of SIL generation and of the SIL diagnostic passes for one unit.
CodegenOutcomes == {"ok", "silgen_error", "sildiag_error"}

\* The functions of the unit's llvm::Module that are definitions with external
\* linkage ("main" is private, ConfigureFunctionLinkage), and its global variables.
ModuleFunctions(decl) == IF IsFuncDecl(decl) THEN {mangleEntity(decl)} ELSE {}

ModuleGlobals(decl) == IF IsFuncDecl(decl) THEN {} ELSE {getName(decl)}

CompileSourceFileToIRAndAddToJIT_RewriteFirst(decl, codegen, remove_fault, add_fault) ==
    LET flag == hadAnyError \/ codegen # "ok"
        calls == ReplaceFunctionCallsWithIndirectFunctionCalls(decl.calls, m_fn_ptr_map)
        rm == RemoveRedeclarationsFromJIT(ModuleFunctions(decl), m_fn_ptr_map,
                                          jit_symbols, remove_fault)
        afp == AddFunctionPointers(rm.fn_ptr_map)
        module == [functions |-> ModuleFunctions(decl),
                   globals |-> ModuleGlobals(decl),
                   slots |-> afp.slots,
                   body |-> decl.body,
                   calls |-> calls]
        add == AddModule(rm.symbols, jit_mem, jit_modules, module, add_fault)
        upd == UpdateFunctionPointers(afp.fn_ptr_map, add.symbols, add.mem)
    IN  IF CHECK_ERROR(flag)
        THEN [ret |-> TRUE, reached_jit |-> FALSE, linked |-> FALSE,
              hadAnyError |-> flag, fn_ptr_map |-> m_fn_ptr_map,
              symbols |-> jit_symbols, mem |-> jit_mem, modules |-> jit_modules,
              events |-> <<>>]
        ELSE [ret |-> ~upd.err, reached_jit |-> TRUE, linked |-> add.ok,
              hadAnyError |-> flag, fn_ptr_map |-> afp.fn_ptr_map,
              symbols |-> add.symbols, mem |-> upd.mem,
              modules |-> add.modules,
              events |-> rm.events \o <<<<"add", module.functions, add.ok>>>> \o upd.events]

CompileSourceFileToIRAndAddToJIT_AddFirst(decl, codegen, remove_fault, add_fault) ==
    LET flag == hadAnyError \/ codegen # "ok"
        fns == ModuleFunctions(decl)
        table == [x \in DOMAIN m_fn_ptr_map \cup fns |->
                     IF x \in DOMAIN m_fn_ptr_map THEN m_fn_ptr_map[x] ELSE EmptyString]
        afp == AddFunctionPointers(table)
        module == [functions |-> fns,
                   globals |-> ModuleGlobals(decl),
                   slots |-> afp.slots,
                   body |-> decl.body,
                   calls |-> ReplaceFunctionCallsWithIndirectFunctionCalls(
                                 decl.calls, afp.fn_ptr_map)]
        add == AddModule(jit_symbols, jit_mem, jit_modules, module, add_fault)
        rm == RemoveRedeclarationsFromJIT(fns, afp.fn_ptr_map, add.symbols, remove_fault)
        upd == UpdateFunctionPointers(rm.fn_ptr_map, rm.symbols, add.mem)
    IN  IF CHECK_ERROR(flag)
        THEN [ret |-> TRUE, reached_jit |-> FALSE, linked |-> FALSE,
              hadAnyError |-> flag, fn_ptr_map |-> m_fn_ptr_map,
              symbols |-> jit_symbols, mem |-> jit_mem, modules |-> jit_modules,
              events |-> <<>>]
        ELSE [ret |-> ~upd.err, reached_jit |-> TRUE, linked |-> add.ok,
              hadAnyError |-> flag, fn_ptr_map |-> rm.fn_ptr_map,
              symbols |-> rm.symbols, mem |-> upd.mem,
              modules |-> add.modules,
              events |-> <<<<"add", module.functions, add.ok>>>> \o rm.events \o upd.events]

\* ret: the value returned; reached_jit: the unit got past the CHECK_ERROR()s of lines
\* 345-355; linked: AddModule bound the unit's symbols.
CompileSourceFileToIRAndAddToJIT(decl, codegen, remove_fault, add_fault) ==
    LET flag == hadAnyError \/ codegen # "ok"
        rm == RemoveRedeclarationsFromJIT(ModuleFunctions(decl), m_fn_ptr_map,
                                          jit_symbols, remove_fault)
        afp == AddFunctionPointers(rm.fn_ptr_map)
        module == [functions |-> ModuleFunctions(decl),
                   globals |-> ModuleGlobals(decl),
                   slots |-> afp.slots,
                   body |-> decl.body,
                   calls |-> ReplaceFunctionCallsWithIndirectFunctionCalls(
                                 decl.calls, afp.fn_ptr_map)]
        add == AddModule(rm.symbols, jit_mem, jit_modules, module, add_fault)
        upd == UpdateFunctionPointers(afp.fn_ptr_map, add.symbols, add.mem)
    IN  IF CHECK_ERROR(flag)
        THEN [ret |-> TRUE, reached_jit |-> FALSE, linked |-> FALSE,
              hadAnyError |-> flag, fn_ptr_map |-> m_fn_ptr_map,
              symbols |-> jit_symbols, mem |-> jit_mem, modules |-> jit_modules,
              events |-> <<>>]
        ELSE [ret |-> ~upd.err, reached_jit |-> TRUE, linked |-> add.ok,
              hadAnyError |-> flag, fn_ptr_map |-> afp.fn_ptr_map,
              symbols |-> add.symbols, mem |-> upd.mem,
              modules |-> add.modules,
              events |-> rm.events \o <<<<"add", module.functions, add.ok>>>> \o upd.events]

-----------------------------------------------------------------------------
(* REPL::ExecuteSwift *)

PRINT_INVALID_REDECLARATION_Continue(i) == [ret |-> ret, pc |-> "decls", idx |-> i + 1]

\* The macro PRINT_INVALID_REDECLARATION, used in the loop at declaration i: after
\* the message, "return true" leaves ExecuteSwift.
PRINT_INVALID_REDECLARATION(i) == [ret |-> "true", pc |-> "prompt", idx |-> i]

IsInvalidRedeclaration_NoKindCheck(decl) ==
    IF IsFuncDecl(decl)
    THEN m_is_playground /\ mangleEntity(decl) \in DOMAIN m_decl_map
    ELSE getName(decl) \in DOMAIN m_decl_map

IsInvalidRedeclaration_NoPlayground(decl) ==
    IF IsFuncDecl(decl)
    THEN /\ getName(decl) \in DOMAIN m_decl_map
         /\ ~IsFuncDecl(units[m_decl_map[getName(decl)]].Decls[1])
    ELSE getName(decl) \in DOMAIN m_decl_map

IsInvalidRedeclaration_KindOnly(decl) ==
    /\ getName(decl) \in DOMAIN m_decl_map
    /\ IsFuncDecl(units[m_decl_map[getName(decl)]].Decls[1]) # IsFuncDecl(decl)

IsInvalidRedeclaration_FunctionsOnly(decl) ==
    /\ IsFuncDecl(decl)
    /\ \/ /\ getName(decl) \in DOMAIN m_decl_map
          /\ ~IsFuncDecl(units[m_decl_map[getName(decl)]].Decls[1])
       \/ m_is_playground /\ mangleEntity(decl) \in DOMAIN m_decl_map

\* Lines 230-253: the declaration is an invalid redeclaration.
IsInvalidRedeclaration(decl) ==
    IF IsFuncDecl(decl)
    THEN \/ /\ getName(decl) \in DOMAIN m_decl_map
            /\ ~IsFuncDecl(units[m_decl_map[getName(decl)]].Decls[1])
         \/ m_is_playground /\ mangleEntity(decl) \in DOMAIN m_decl_map
    ELSE getName(decl) \in DOMAIN m_decl_map

RegisterDecl_MangledOnly(decl) ==
    LET name == DeclName(decl)
        known == name \in DOMAIN m_decl_map
        src_file == IF known THEN m_decl_map[name] ELSE Len(units) + 1
    IN  [src_file |-> src_file,
         created |-> ~known,
         units |-> IF known THEN [units EXCEPT ![src_file] = [Decls |-> <<decl>>]]
                   ELSE Append(units, [Decls |-> <<decl>>]),
         decl_map |-> IF getName(decl) \in DOMAIN m_decl_map
                      THEN MapPut(m_decl_map, name, src_file)
                      ELSE MapPut(MapPut(m_decl_map, getName(decl), src_file), name, src_file)]

\* Lines 254-281: the SourceFile of the declaration (a new one, or the one already
\* registered under its name) now holds the declaration and owns both keys.
RegisterDecl(decl) ==
    LET name == DeclName(decl)
        known == name \in DOMAIN m_decl_map
        src_file == IF known THEN m_decl_map[name] ELSE Len(units) + 1
    IN  [src_file |-> src_file,
         created |-> ~known,
         units |-> IF known THEN [units EXCEPT ![src_file] = [Decls |-> <<decl>>]]
                   ELSE Append(units, [Decls |-> <<decl>>]),
         decl_map |-> MapPut(MapPut(m_decl_map, getName(decl), src_file), name, src_file)]

NoDecl == [kind |-> "none", name |-> <<"", 0>>, sig |-> 0, calls |-> {}, body |-> 0]

NoStep == [decl |-> NoDecl, outcome |-> "none", linked |-> FALSE, events |-> <<>>]

NotInvoked == [called |-> FALSE, fn |-> NoFn, address |-> 0]

EmptyMap == [x \in {} |-> 0]

Init ==
    /\ m_is_playground \in BOOLEAN
    /\ m_curr_input_number = 1
    /\ hadAnyError = FALSE
    /\ m_decl_map = EmptyMap
    /\ units = <<>>
    /\ m_fn_ptr_map = EmptyMap
    /\ jit_symbols = EmptyMap
    /\ jit_mem = EmptyMap
    /\ jit_modules = {}
    /\ pc = "prompt"
    /\ line = ""
    /\ frontend_diag = FALSE
    /\ module_name = <<"", 0>>
    /\ Decls = <<>>
    /\ idx = 1
    /\ res_fn = NoFn
    /\ ret = "none"
    /\ last = NoStep
    /\ invoked = NotInvoked
    /\ redefined = EmptyMap
    /\ blank_lines = 0
    /\ module_names = <<>>

\* Lines 143-216: the call of ExecuteSwift(l) up to the declaration loop.  diag: the
\* frontend reports an error for l; ds: the declarations it delivers otherwise.
ExecuteSwiftEnter(l, diag, ds) ==
    /\ pc = "prompt"
    /\ m_curr_input_number <= MaxTurns
    /\ m_curr_input_number' = m_curr_input_number + 1
    /\ line' = l
    /\ res_fn' = NoFn
    /\ last' = NoStep
    /\ invoked' = NotInvoked
    /\ idx' = 1
    /\ UNCHANGED <<m_is_playground, core, redefined>>
    /\ IF IsExitString(l)
       THEN /\ hadAnyError' = FALSE
            /\ frontend_diag' = FALSE
            /\ ret' = "false"
            /\ pc' = "stopped"
            /\ Decls' = <<>>
            /\ UNCHANGED <<module_name, module_names>>
       ELSE /\ module_name' = AddToSrcMgr(m_curr_input_number + 1).module_name
            /\ module_names' = Append(module_names, module_name')
            /\ hadAnyError' = diag
            /\ frontend_diag' = diag
            /\ Decls' = ds
            /\ IF CHECK_ERROR(diag)
               THEN ret' = "true" /\ pc' = "prompt"
               ELSE ret' = "none" /\ pc' = "decls"

\* Lines 218-291: one iteration of the loop over tmp_src_file->Decls.
ProcessDecl(codegen, remove_fault, add_fault) ==
    /\ pc = "decls"
    /\ idx <= Len(Decls)
    /\ UNCHANGED <<m_is_playground, m_curr_input_number, line, frontend_diag,
                   module_name, Decls, invoked, blank_lines, module_names>>
    /\ LET decl == Decls[idx]
           reg == RegisterDecl(decl)
           c == CompileSourceFileToIRAndAddToJIT(decl, codegen, remove_fault, add_fault)
       IN  IF ~IsValueDecl(decl)
           THEN /\ idx' = idx + 1
                /\ last' = [NoStep EXCEPT !.decl = decl, !.outcome = "not_value_decl"]
                /\ UNCHANGED <<core, hadAnyError, pc, res_fn, ret, redefined>>
           ELSE /\ res_fn' = IF IsFuncDecl(decl) /\ decl.name = module_name
                             THEN mangleEntity(decl) ELSE res_fn
                /\ IF IsInvalidRedeclaration(decl)
                   THEN /\ last' = [NoStep EXCEPT !.decl = decl,
                                                  !.outcome = "invalid_redeclaration"]
                        /\ ret' = PRINT_INVALID_REDECLARATION(idx).ret
                        /\ pc' = PRINT_INVALID_REDECLARATION(idx).pc
                        /\ idx' = PRINT_INVALID_REDECLARATION(idx).idx
                        /\ UNCHANGED <<core, hadAnyError, redefined>>
                   ELSE /\ m_decl_map' = reg.decl_map
                        /\ units' = reg.units
                        /\ hadAnyError' = c.hadAnyError
                        /\ m_fn_ptr_map' = c.fn_ptr_map
                        /\ jit_symbols' = c.symbols
                        /\ jit_mem' = c.mem
                        /\ jit_modules' = c.modules
                        /\ redefined' =
                              IF IsFuncDecl(decl) /\ c.reached_jit
                              THEN MapPut(redefined, mangleEntity(decl),
                                          IF c.linked /\ c.ret THEN decl.body ELSE 0)
                              ELSE redefined
                        /\ last' = [decl |-> decl,
                                    outcome |-> IF ~c.reached_jit THEN "codegen_diagnostic"
                                                ELSE IF c.ret THEN "compiled"
                                                ELSE "compile_failed",
                                    linked |-> c.linked,
                                    events |-> c.events]
                        /\ IF c.ret
                           THEN idx' = idx + 1 /\ UNCHANGED <<pc, ret>>
                           ELSE ret' = "true" /\ pc' = "prompt" /\ UNCHANGED idx

\* Lines 293-312: after the loop, the entry wrapper is looked up and called.
ExecuteSwiftFinish ==
    /\ pc = "decls"
    /\ idx > Len(Decls)
    /\ UNCHANGED <<m_is_playground, m_curr_input_number, hadAnyError, core, line,
                   frontend_diag, module_name, Decls, idx, res_fn, last, redefined,
                   blank_lines, module_names>>
    /\ LET symbol == LookupSymbol(jit_symbols, jit_mem, res_fn)
       IN  IF res_fn # NoFn
           THEN IF symbol.found
                THEN /\ invoked' = [called |-> TRUE, fn |-> res_fn,
                                    address |-> symbol.address]
                     /\ ret' = "true"
                     /\ pc' = "prompt"
                ELSE /\ invoked' = NotInvoked
                     /\ ret' = "false"
                     /\ pc' = "stopped"
           ELSE /\ invoked' = NotInvoked
                /\ ret' = "true"
                /\ pc' = "prompt"

\* k empty lines.
BlankLines(k) == [i \in 1..k |-> ""]

\* The main loop at the prompt: ExecuteSwift(GetLine()) on the lines typed, stdin.
ReadAndExecute(stdin, diag, ds) ==
    /\ blank_lines' = GetLine(stdin).blank
    /\ ExecuteSwiftEnter(GetLine(stdin).result, diag, ds)

Next ==
    \/ \E in \in Inputs(m_curr_input_number + 1), k \in 0..MaxBlank :
          ReadAndExecute(BlankLines(k) \o <<in.line>>, in.diag, in.decls)
    \/ \E codegen \in CodegenOutcomes, remove_fault \in BOOLEAN, add_fault \in BOOLEAN :
          ProcessDecl(codegen, remove_fault, add_fault)
    \/ ExecuteSwiftFinish

Spec == Init /\ [][Next]_vars

-----------------------------------------------------------------------------
(* Properties *)

\* The loop of REPL.cpp:218 is about to handle a ValueDecl.
AtDecl == pc = "decls" /\ idx <= Len(Decls) /\ IsValueDecl(Decls[idx])

\* The declaration registered under key k.
Holder(k) == units[m_decl_map[k]].Decls[1]

\* The body a call of a linked module executes when it is made now.
Resolve(c) ==
    IF ~c.indirect THEN c.direct_to
    ELSE IF c.slot \in DOMAIN jit_mem THEN jit_mem[c.slot] ELSE 0

\* The linked modules whose function is the one currently bound under its symbol.
LiveModules ==
    {m \in jit_modules :
        \E s \in m.functions : s \in DOMAIN jit_symbols /\ jit_symbols[s] = m.body}

\* C1: in every state, a call to f made from any module that is linked and live
\* executes the body of the last successful (re)definition of f, whatever turn the
\* caller was compiled in and whether its unit was compiled before or after the unit
\* of f; the caller's module is the one linked then (same body).
C1_CallsReachLatestDefinition ==
    \A m \in LiveModules : \A c \in m.calls :
        (c.target \in DOMAIN redefined /\ redefined[c.target] # 0)
            => Resolve(c) = redefined[c.target]

\* The declaration has the opposite function-vs-non-function status of the holder
\* of its unmangled name.
KindMismatch(decl) ==
    /\ getName(decl) \in DOMAIN m_decl_map
    /\ IsFuncDecl(Holder(getName(decl))) # IsFuncDecl(decl)

\* C2: a declaration whose unmangled name is registered with the opposite
\* function-vs-non-function status is rejected, and the step changes neither the
\* registry, nor the indirection table, nor the JIT.
C2_KindMismatchRejected ==
    [][(AtDecl /\ KindMismatch(Decls[idx]))
          => (last'.outcome = "invalid_redeclaration" /\ UNCHANGED core)]_vars

\* A variable named like a function that is bound and patched was rejected.
C2_Witness ==
    /\ last.outcome = "invalid_redeclaration"
    /\ ~IsFuncDecl(last.decl)
    /\ KindMismatch(last.decl)
    /\ LET f == mangleEntity(Holder(getName(last.decl)))
       IN  /\ f \in DOMAIN jit_symbols
           /\ f \in DOMAIN m_fn_ptr_map
           /\ jit_mem[m_fn_ptr_map[f]] = jit_symbols[f]

\* C3: a function declaration whose mangled symbol is a key of the registry is
\* rejected in playground mode, the step changing nothing of the registry, the table
\* and the JIT; in non-playground mode it is accepted and registered.
C3_PlaygroundRejectsExactSymbol ==
    [][(AtDecl /\ IsFuncDecl(Decls[idx]) /\ mangleEntity(Decls[idx]) \in DOMAIN m_decl_map)
          => IF m_is_playground
             THEN last'.outcome = "invalid_redeclaration" /\ UNCHANGED core
             ELSE /\ last'.outcome # "invalid_redeclaration"
                  /\ units'[m_decl_map'[mangleEntity(Decls[idx])]].Decls = <<Decls[idx]>>]_vars

\* In a playground, a function was rejected whose symbol an earlier turn registered.
C3_Witness ==
    /\ m_is_playground
    /\ last.outcome = "invalid_redeclaration"
    /\ IsFuncDecl(last.decl)
    /\ mangleEntity(last.decl) \in DOMAIN m_decl_map
    /\ IsFuncDecl(Holder(mangleEntity(last.decl)))
    /\ Holder(mangleEntity(last.decl)).body < last.decl.body

\* C4: outside playgrounds a function declaration whose unmangled name is held by a
\* function is accepted; a new mangled symbol gets a new unit and leaves every other
\* mangled entry as it was, a known one keeps its unit; afterwards both keys map to
\* the unit that holds the new declaration.
C4_FunctionRedefinitionAccepted ==
    [][(AtDecl /\ ~m_is_playground /\ IsFuncDecl(Decls[idx])
           /\ getName(Decls[idx]) \in DOMAIN m_decl_map
           /\ IsFuncDecl(Holder(getName(Decls[idx]))))
          => LET d == Decls[idx]
                 name == mangleEntity(d)
             IN  /\ last'.outcome # "invalid_redeclaration"
                 /\ name \in DOMAIN m_decl_map'
                 /\ m_decl_map'[getName(d)] = m_decl_map'[name]
                 /\ units'[m_decl_map'[name]].Decls = <<d>>
                 /\ IF name \in DOMAIN m_decl_map
                    THEN /\ m_decl_map'[name] = m_decl_map[name]
                         /\ Len(units') = Len(units)
                    ELSE /\ m_decl_map'[name] = Len(units) + 1
                         /\ Len(units') = Len(units) + 1
                 /\ \A k \in DOMAIN m_decl_map \ {getName(d), name} :
                       /\ k \in DOMAIN m_decl_map'
                       /\ m_decl_map'[k] = m_decl_map[k]
                       /\ units'[m_decl_map'[k]] = units[m_decl_map[k]]]_vars

\* Two overloads are registered, the unmangled name owned by the later one.
C4_Witness ==
    /\ ~m_is_playground
    /\ last.outcome = "compiled"
    /\ IsFuncDecl(last.decl)
    /\ \E k \in DOMAIN m_decl_map :
          /\ k # mangleEntity(last.decl) /\ k # getName(last.decl)
          /\ getName(Holder(k)) = getName(last.decl)
          /\ m_decl_map[k] # m_decl_map[getName(last.decl)]
    /\ Holder(getName(last.decl)) = last.decl

\* C5: a non-function declaration is rejected when its name is a key of the
\* registry (in every mode, whatever holds the key) and otherwise gets a new unit
\* registered under its name; a name held by a non-function keeps its unit and its
\* declaration in every step.
C5_NonFunctionNamesKeepFirstDeclaration ==
    [][/\ (AtDecl /\ ~IsFuncDecl(Decls[idx]))
          => IF getName(Decls[idx]) \in DOMAIN m_decl_map
             THEN last'.outcome = "invalid_redeclaration" /\ UNCHANGED <<m_decl_map, units>>
             ELSE /\ last'.outcome # "invalid_redeclaration"
                  /\ Len(units') = Len(units) + 1
                  /\ getName(Decls[idx]) \in DOMAIN m_decl_map'
                  /\ m_decl_map'[getName(Decls[idx])] = Len(units')
                  /\ units'[Len(units')].Decls = <<Decls[idx]>>
       /\ \A k \in DOMAIN m_decl_map :
             ~IsFuncDecl(Holder(k))
                => /\ k \in DOMAIN m_decl_map'
                   /\ m_decl_map'[k] = m_decl_map[k]
                   /\ units'[m_decl_map'[k]] = units[m_decl_map[k]]]_vars

\* A variable was rejected because an earlier turn declared a variable of its name.
C5_Witness ==
    /\ last.outcome = "invalid_redeclaration"
    /\ ~IsFuncDecl(last.decl)
    /\ getName(last.decl) \in DOMAIN m_decl_map
    /\ ~IsFuncDecl(Holder(getName(last.decl)))
    /\ Holder(getName(last.decl)).body < last.decl.body

\* The rules of the redeclaration check, stated from the registry alone.
MustReject(decl) ==
    \/ KindMismatch(decl)
    \/ ~IsFuncDecl(decl) /\ getName(decl) \in DOMAIN m_decl_map
    \/ m_is_playground /\ IsFuncDecl(decl) /\ mangleEntity(decl) \in DOMAIN m_decl_map

\* C6 as claimed: a rejected declaration is skipped and the loop goes on to the
\* next declaration of the turn (and then to the entry wrapper).
C6_RejectionSkipsOnlyTheDeclaration ==
    [][(AtDecl /\ MustReject(Decls[idx])) => (pc' = "decls" /\ idx' = idx + 1)]_vars

\* C6 amended: a rejected declaration ends the turn: ExecuteSwift returns true at
\* once, the declarations after it are not visited, no entry wrapper is called, and
\* the registry, the table and the JIT are as the earlier declarations left them.
C6_RejectionEndsTheTurn ==
    [][(AtDecl /\ MustReject(Decls[idx]))
          => /\ last'.outcome = "invalid_redeclaration"
             /\ pc' = "prompt"
             /\ ret' = "true"
             /\ idx' = idx
             /\ ~invoked'.called
             /\ UNCHANGED core]_vars

\* A turn stopped at a rejected declaration with its entry wrapper still to come.
C6_Witness ==
    /\ pc = "prompt"
    /\ last.outcome = "invalid_redeclaration"
    /\ ret = "true"
    /\ \E j \in DOMAIN Decls : j > idx /\ Decls[j].name = module_name
    /\ mangleEntity(WrapperDecl({}, m_curr_input_number)) \notin DOMAIN m_decl_map

\* C7 as claimed: a call with an exit token changes neither the turn counter, nor
\* the diagnostic state, nor the registry, the table and the JIT.
C7_ExitMutatesNothing ==
    [][(pc = "prompt" /\ line' \in {"e", "exit"})
          => UNCHANGED <<m_curr_input_number, hadAnyError, core>>]_vars

\* C7 amended: a call with an exit token returns false without compiling, leaves
\* the registry, the table and the JIT unchanged, and has incremented the turn
\* counter by one and reset the diagnostic flag.
C7_ExitReturnsFalse ==
    [][(pc = "prompt" /\ line' \in {"e", "exit"})
          => /\ ret' = "false"
             /\ pc' = "stopped"
             /\ Decls' = <<>>
             /\ m_curr_input_number' = m_curr_input_number + 1
             /\ hadAnyError' = FALSE
             /\ UNCHANGED core]_vars

\* The loop was left by "e" after a turn that registered and linked something.
C7_Witness ==
    /\ pc = "stopped"
    /\ line = "e"
    /\ ret = "false"
    /\ m_curr_input_number = 3
    /\ DOMAIN jit_symbols # {}
    /\ DOMAIN m_decl_map # {}

\* C8: a turn for which the frontend reports an error returns true before the
\* declaration loop: the registry, the table and the JIT are those of the previous
\* turn's end and no entry wrapper is called.
C8_FrontendDiagnosticAbortsTurn ==
    [][frontend_diag'
          => /\ pc' = "prompt"
             /\ ret' = "true"
             /\ idx' = 1
             /\ ~invoked'.called
             /\ last'.outcome = "none"
             /\ UNCHANGED core]_vars

\* A failing line with a declaration in it was handed in after a successful turn.
C8_Witness ==
    /\ frontend_diag
    /\ pc = "prompt"
    /\ ret = "true"
    /\ Len(Decls) > 0
    /\ DOMAIN jit_symbols # {}
    /\ Decls[1].name \notin {Holder(k).name : k \in DOMAIN m_decl_map}

\* C9 as claimed: once code generation has raised a diagnostic in a turn, the turn
\* is over: ExecuteSwift has returned true, with no declaration handled after the
\* failing one and no entry wrapper looked up or called.
C9_CodegenFailureStopsTurn ==
    (hadAnyError /\ ~frontend_diag)
        => /\ pc = "prompt"
           /\ ret = "true"
           /\ last.outcome = "codegen_diagnostic"
           /\ ~invoked.called

\* C10 as claimed: ExecuteSwift returns false only for an exit token.
C10_OnlyExitStopsTheLoop ==
    ret = "false" => line \in {"e", "exit"}

-----------------------------------------------------------------------------
(* Failures inside a turn *)

\* The step handled a declaration that failed in code generation, in linking or in
\* slot patching.
FailedStep ==
    \/ last'.outcome \in {"codegen_diagnostic", "compile_failed"}
    \/ last'.outcome = "compiled" /\ ~last'.linked

\* The step leaves the bound symbol s as it was: its binding in the JIT, its entry
\* in the registry with the unit of that entry, its table entry and, when the slot
\* was patched with the binding, the content of the slot.
KeptByStep(s) ==
    /\ s \in DOMAIN jit_symbols' /\ jit_symbols'[s] = jit_symbols[s]
    /\ s \in DOMAIN m_decl_map
          => /\ s \in DOMAIN m_decl_map'
             /\ m_decl_map'[s] = m_decl_map[s]
             /\ units'[m_decl_map'[s]] = units[m_decl_map[s]]
    /\ s \in DOMAIN m_fn_ptr_map
          => /\ s \in DOMAIN m_fn_ptr_map'
             /\ m_fn_ptr_map'[s] = m_fn_ptr_map[s]
             /\ (m_fn_ptr_map[s] \in DOMAIN jit_mem
                    /\ jit_mem[m_fn_ptr_map[s]] = jit_symbols[s])
                   => jit_mem'[m_fn_ptr_map[s]] = jit_mem[m_fn_ptr_map[s]]

\* C11 as claimed: a declaration that fails leaves every binding as it was, those
\* of the earlier declarations of its turn and those of the earlier turns.
C11_FailureTouchesNoBinding ==
    [][(AtDecl /\ FailedStep) => \A s \in DOMAIN jit_symbols : KeptByStep(s)]_vars

\* C11 amended: a declaration that fails leaves as they were the bindings, registry
\* entries, table entries and patched slots of every other symbol: of the
\* declarations linked before it in its turn and of the earlier turns; and the rest
\* of the turn (later failing declarations, the wrapper lookup) changes none of them.
\* The symbol the failing declaration itself redefines is not covered: its previous
\* binding is removed before the add and is not restored.
C11_FailureKeepsOtherBindings ==
    [][/\ (AtDecl /\ FailedStep)
          => \A s \in DOMAIN jit_symbols \ {DeclName(Decls[idx])} : KeptByStep(s)
       /\ (pc = "decls" /\ idx > Len(Decls)) => UNCHANGED core]_vars

\* The second declaration of a turn failed to link, the first one of the same turn
\* is bound and its slot patched, and so is a function of the turn before.
C11_Witness ==
    /\ last.outcome = "compile_failed"
    /\ ~last.linked
    /\ pc = "prompt"
    /\ idx = 2
    /\ IsFuncDecl(Decls[1])
    /\ LET s == mangleEntity(Decls[1])
       IN  /\ s \in DOMAIN jit_symbols
           /\ jit_symbols[s] = Decls[1].body
           /\ s \in DOMAIN m_decl_map
           /\ jit_mem[m_fn_ptr_map[s]] = jit_symbols[s]
    /\ \E t \in DOMAIN jit_symbols :
          /\ jit_symbols[t] < Decls[1].body
          /\ t \in DOMAIN m_fn_ptr_map
          /\ jit_mem[m_fn_ptr_map[t]] = jit_symbols[t]

\* The loop is about to compile a function whose symbol is not bound in the JIT.
AtUnboundFunction ==
    /\ AtDecl
    /\ IsFuncDecl(Decls[idx])
    /\ mangleEntity(Decls[idx]) \notin DOMAIN jit_symbols

\* C12: when the symbol of the unit is not bound, RemoveSymbol reports
\* symbol-not-found and RemoveRedeclarationsFromJIT goes on: the symbol gets its
\* table entry, the add is the next operation on the JIT, and when the add links the
\* symbol is bound to the new body.  The not-found removal never makes the add fail
\* (the unit links unless the JIT refuses it), and removing the symbol once more
\* reports the same and changes no binding.
C12_RemovingUnboundSymbolSucceeds ==
    [][(AtUnboundFunction /\ last'.outcome \in {"compiled", "compile_failed"})
          => LET d == Decls[idx]
                 sym == mangleEntity(d)
             IN  /\ Len(last'.events) >= 2
                 /\ last'.events[1] = <<"remove", sym, "SymbolsNotFound">>
                 /\ last'.events[2] = <<"add", {sym}, last'.linked>>
                 /\ sym \in DOMAIN m_fn_ptr_map'
                 /\ last'.linked
                       => /\ sym \in DOMAIN jit_symbols'
                          /\ LookupSymbol(jit_symbols', jit_mem', sym) =
                                [found |-> TRUE, address |-> d.body]
                 /\ \A rf \in BOOLEAN :
                       LET c == CompileSourceFileToIRAndAddToJIT(d, "ok", rf, FALSE)
                           once == RemoveSymbol(jit_symbols, sym, rf)
                           twice == RemoveSymbol(once.symbols, sym, rf)
                       IN  /\ c.linked /\ sym \in DOMAIN c.symbols
                           /\ once.err = "SymbolsNotFound"
                           /\ twice = once
                           /\ once.symbols = jit_symbols]_vars

\* A function whose first definition did not link (its removal reported not-found)
\* was defined again in the next turn: the removal reported not-found again and the
\* unit linked, the symbol now being bound to the new body.
C12_Witness ==
    /\ last.outcome \in {"compiled", "compile_failed"}
    /\ IsFuncDecl(last.decl)
    /\ last.decl.body = 3
    /\ last.linked
    /\ last.events[1] = <<"remove", mangleEntity(last.decl), "SymbolsNotFound">>
    /\ jit_symbols[mangleEntity(last.decl)] = 3
    /\ m_fn_ptr_map[mangleEntity(last.decl)] \notin DOMAIN jit_mem

\* Some removal of the compile step failed otherwise than by symbol-not-found.
RemovalFailed(events) ==
    \E i \in DOMAIN events :
        events[i][1] = "remove" /\ events[i][3] = "SymbolsCouldNotBeRemoved"

\* C13 as claimed: when the JIT cannot remove a redefinition target, the turn ends
\* there: the unit is not handed to the JIT, no slot is written, and ExecuteSwift
\* returns true without visiting the remaining declarations or the entry wrapper.
C13_RemovalFailureIsFatal ==
    [][RemovalFailed(last'.events)
          => /\ \A i \in DOMAIN last'.events : last'.events[i][1] = "remove"
             /\ pc' = "prompt"
             /\ ret' = "true"
             /\ idx' = idx]_vars

\* The table entry whose target UpdateFunctionPointers could not resolve in the
\* last compile step (<<>> when the step did not end that way).
UnresolvedTarget ==
    IF last.outcome = "compile_failed"
          /\ last.events[Len(last.events)][1] = "lookup_failed"
          /\ last.events[Len(last.events)][2] \in DOMAIN m_fn_ptr_map
    THEN last.events[Len(last.events)][2]
    ELSE <<>>

\* C14 as claimed: after a turn that failed because the target of a slot could not
\* be resolved, ExecuteSwift has returned true and the slot of that target is unset:
\* it holds no address, in particular not the one of a removed implementation.
C14_UnresolvedTargetSlotUnset ==
    (pc = "prompt" /\ UnresolvedTarget # <<>>)
        => /\ ret = "true"
           /\ m_fn_ptr_map[UnresolvedTarget] \in DOMAIN jit_mem
                 => jit_mem[m_fn_ptr_map[UnresolvedTarget]] = 0

-----------------------------------------------------------------------------
(* The turn counter *)

\* C15: the turn counter changes only in the step that hands a line to
\* ExecuteSwift, where it grows by exactly one, however many blank lines GetLine
\* discarded before the line, which is never empty; at that point nothing has been
\* compiled for the turn; and the module names generated so far, the current
\* "__repl_<counter>" included, are pairwise distinct, whether the turns they named
\* failed, were rejected or succeeded.
C15_CounterGrowsByOnePerLine ==
    [][/\ IF pc = "prompt"
          THEN /\ m_curr_input_number' = m_curr_input_number + 1
               /\ line' # ""
               /\ blank_lines' \in 0..MaxBlank
               /\ last' = NoStep
               /\ UNCHANGED core
               /\ module_names' # module_names
                     => /\ module_name' = <<"__repl_", m_curr_input_number'>>
                        /\ module_names' = Append(module_names, module_name')
          ELSE UNCHANGED <<m_curr_input_number, module_names>>
       /\ \A i, j \in DOMAIN module_names' :
             i # j => module_names'[i] # module_names'[j]]_vars

\* Blank lines were typed before the second line, the turn of the first line
\* having failed or been rejected; both turns got a module name.
C15_Witness ==
    /\ blank_lines > 0
    /\ m_curr_input_number = 3
    /\ Len(module_names) = 2
    /\ module_names[1] # module_names[2]
    /\ pc = "decls"
    /\ line = "src"
    /\ hadAnyError = FALSE
    /\ DOMAIN jit_symbols = {}
    /\ DOMAIN m_decl_map # {}

-----------------------------------------------------------------------------
(* The slots at a turn boundary *)

\* The content of the slot of table entry s (0: unset, or the slot does not exist).
SlotValue(s) ==
    IF m_fn_ptr_map[s] \in DOMAIN jit_mem THEN jit_mem[m_fn_ptr_map[s]] ELSE 0

\* The functions the last turn linked: bound to a body of that turn.
LinkedInLastTurn ==
    {s \in DOMAIN jit_symbols \cap DOMAIN m_fn_ptr_map :
        jit_symbols[s] = m_curr_input_number}

\* C16 as claimed: whenever ExecuteSwift has returned, every slot of the table is
\* unset or holds the address bound in the JIT for its symbol, and the slot of every
\* function the turn linked holds that function's address, also when another entry
\* of the table could not be resolved in the turn.
C16_SlotsCurrentAtTurnBoundary ==
    pc \in {"prompt", "stopped"}
        => /\ \A s \in DOMAIN m_fn_ptr_map :
                 \/ SlotValue(s) = 0
                 \/ s \in DOMAIN jit_symbols /\ SlotValue(s) = jit_symbols[s]
           /\ \A s \in LinkedInLastTurn : SlotValue(s) = jit_symbols[s]

-----------------------------------------------------------------------------
(* Link failures *)

\* C17 as claimed: when the JIT does not link the unit handed to AddModule,
\* CompileSourceFileToIRAndAddToJIT returns false and ExecuteSwift returns true at
\* that declaration, whatever the unit defines and whatever the table holds.
C17_AddFailureAbortsTurn ==
    [][(AtDecl /\ last'.outcome \in {"compiled", "compile_failed"} /\ ~last'.linked)
          => /\ last'.outcome = "compile_failed"
             /\ pc' = "prompt"
             /\ ret' = "true"
             /\ idx' = idx]_vars

\* The table entries whose symbol the JIT cannot resolve.
UnresolvableEntries == DOMAIN m_fn_ptr_map \ DOMAIN jit_symbols

\* The declaration neither defines nor calls an unresolvable entry and passes the
\* redeclaration check.
Unrelated(decl) ==
    /\ DeclName(decl) \notin UnresolvableEntries
    /\ decl.calls \cap UnresolvableEntries = {}
    /\ ~MustReject(decl)

\* C18 as claimed: with an unresolvable entry left in the table by an earlier turn,
\* an unrelated declaration whose code generation succeeds and whose unit the JIT
\* links is compiled with success: its slot is patched and the loop goes on.
C18_UnresolvableEntryIsLocalToItsTurn ==
    [][(/\ AtDecl
        /\ UnresolvableEntries # {}
        /\ Unrelated(Decls[idx])
        /\ last'.outcome \in {"compiled", "compile_failed"}
        /\ last'.linked)
          => /\ last'.outcome = "compiled"
             /\ pc' = "decls"
             /\ idx' = idx + 1
             /\ IsFuncDecl(Decls[idx])
                   => jit_mem'[m_fn_ptr_map'[mangleEntity(Decls[idx])]] = Decls[idx].body]_vars

-----------------------------------------------------------------------------
(* Order of the JIT operations *)

\* The step handed a unit to the JIT.
ReachedJIT == AtDecl /\ last'.outcome \in {"compiled", "compile_failed"}

\* Position of the add among the JIT operations of a compile step (0: no add).
AddPosition(events) ==
    IF \E i \in DOMAIN events : events[i][1] = "add"
    THEN CHOOSE i \in DOMAIN events : events[i][1] = "add"
    ELSE 0

\* C19: in every compile step that reaches the JIT there is exactly one add; every
\* function the unit defines is removed before it, nothing else is removed, and
\* nothing is removed after it; so, unless a removal was reported as failed, no
\* function of the unit is bound when the unit is added: afterwards each is bound
\* to the new body when the unit linked and is not bound at all when it did not.
C19_RemovalPrecedesAdd ==
    [][ReachedJIT
          => LET ev == last'.events
                 d == Decls[idx]
                 fns == ModuleFunctions(d)
                 a == AddPosition(ev)
             IN  /\ a > 0
                 /\ \A i \in DOMAIN ev : ev[i][1] = "add" => i = a
                 /\ \A i \in DOMAIN ev :
                       ev[i][1] = "remove" => (i < a /\ ev[i][2] \in fns)
                 /\ \A f \in fns : \E i \in 1..(a - 1) :
                       ev[i][1] = "remove" /\ ev[i][2] = f
                 /\ \A i \in DOMAIN ev :
                       i > a => ev[i][1] \in {"patch", "lookup_failed"}
                 /\ ~RemovalFailed(ev)
                       => IF last'.linked
                          THEN \A f \in fns : f \in DOMAIN jit_symbols'
                                                 /\ jit_symbols'[f] = d.body
                          ELSE fns \cap DOMAIN jit_symbols' = {}]_vars

\* A bound function was redefined: its binding was removed, then the new unit was
\* added and linked, and the symbol is bound to the new body.
C19_Witness ==
    /\ last.outcome = "compiled"
    /\ IsFuncDecl(last.decl)
    /\ last.decl.body = 3
    /\ last.linked
    /\ Len(last.events) >= 3
    /\ last.events[1] = <<"remove", mangleEntity(last.decl), "success">>
    /\ last.events[2] = <<"add", {mangleEntity(last.decl)}, TRUE>>
    /\ jit_symbols[mangleEntity(last.decl)] = 3

\* Every ValueDecl of the running turn is bound in the JIT to the body of the turn.
AllUnitsLinked ==
    \A i \in DOMAIN Decls :
        IsValueDecl(Decls[i])
            => /\ DeclName(Decls[i]) \in DOMAIN jit_symbols
               /\ jit_symbols[DeclName(Decls[i])] = Decls[i].body

\* C20 as claimed: in a compile step every slot write comes after the add and
\* writes the address the lookup of its symbol returned; the entry wrapper is
\* called only by the step that follows the declaration loop, at most once in a
\* turn, and only in a turn all of whose units were linked.
C20_WrapperRunsAfterAllUnitsLinked ==
    [][/\ ReachedJIT
          => \A i \in DOMAIN last'.events :
                last'.events[i][1] = "patch"
                   => /\ i > AddPosition(last'.events)
                      /\ AddPosition(last'.events) > 0
                      /\ last'.events[i][2] \in DOMAIN jit_symbols'
                      /\ last'.events[i][3] = jit_symbols'[last'.events[i][2]]
       /\ (invoked'.called /\ invoked' # invoked)
          => /\ pc = "decls" /\ idx > Len(Decls)
             /\ ~invoked.called
             /\ UNCHANGED core
             /\ AllUnitsLinked]_vars

-----------------------------------------------------------------------------
(* The registry *)

\* The keys of the registry whose unit holds a declaration of the unmangled name u.
KeysOf(u) == {k \in DOMAIN m_decl_map : getName(Holder(k)) = u}

\* C21: in every state, every unit the registry refers to holds exactly one
\* declaration (the assertion of line 239 holds); the declarations registered under
\* one unmangled name are all functions or all non-functions; a non-function is
\* registered under its unmangled name only; a function is registered under its
\* mangled symbol, and the unmangled name is a key held by a function of that name.
C21_RegistryKeepsOneKindPerName ==
    \A k \in DOMAIN m_decl_map :
        LET d == Holder(k)
            u == getName(d)
        IN  /\ Len(units[m_decl_map[k]].Decls) = 1
            /\ u \in DOMAIN m_decl_map
            /\ getName(Holder(u)) = u
            /\ \A k2 \in KeysOf(u) : IsFuncDecl(Holder(k2)) = IsFuncDecl(d)
            /\ IF IsFuncDecl(d)
               THEN k \in {u, mangleEntity(d)} /\ mangleEntity(d) \in DOMAIN m_decl_map
               ELSE KeysOf(u) = {u}

\* Two overloads of one name are registered under their mangled symbols, and a
\* variable of that name, declared in the next turn, was rejected.
C21_Witness ==
    /\ last.outcome = "invalid_redeclaration"
    /\ ~IsFuncDecl(last.decl)
    /\ Cardinality(KeysOf(getName(last.decl))) = 3
    /\ \A k \in KeysOf(getName(last.decl)) : IsFuncDecl(Holder(k))
    /\ \E k1, k2 \in KeysOf(getName(last.decl)) :
          /\ k1 # k2
          /\ m_decl_map[k1] # m_decl_map[k2]
          /\ Holder(k1).body < last.decl.body

\* The declaration registered under key k is the one bound in the JIT.
RegisteredUnitLinked(k) ==
    /\ DeclName(Holder(k)) \in DOMAIN jit_symbols
    /\ jit_symbols[DeclName(Holder(k))] = Holder(k).body

\* C22 as claimed: whenever ExecuteSwift has returned, every key of the registry
\* denotes a unit that was compiled and linked, and a declaration is rejected as an
\* invalid redeclaration only on account of names whose registered unit is linked.
C22_RegistryHoldsOnlyLinkedUnits ==
    [][/\ pc' \in {"prompt", "stopped"}
          => \A k \in DOMAIN m_decl_map' :
                /\ DeclName(units'[m_decl_map'[k]].Decls[1]) \in DOMAIN jit_symbols'
                /\ jit_symbols'[DeclName(units'[m_decl_map'[k]].Decls[1])] =
                      units'[m_decl_map'[k]].Decls[1].body
       /\ (AtDecl /\ last'.outcome = "invalid_redeclaration")
          => \A k \in {getName(Decls[idx]), DeclName(Decls[idx])} \cap DOMAIN m_decl_map :
                RegisteredUnitLinked(k)]_vars

-----------------------------------------------------------------------------
(* The indirection table *)

\* C23: no step removes a table entry or changes the slot name of one; an entry is
\* created only by a compile step that reaches the JIT, only for a function the unit
\* defines, with the slot name derived from the symbol; after such a step every
\* function of the unit has an entry; and the entry exists before the unit's calls
\* are rewritten: a unit that calls a function it defines calls it through the slot.
C23_TableOnlyGrows ==
    [][/\ \A s \in DOMAIN m_fn_ptr_map :
             s \in DOMAIN m_fn_ptr_map' /\ m_fn_ptr_map'[s] = m_fn_ptr_map[s]
       /\ \A s \in DOMAIN m_fn_ptr_map' \ DOMAIN m_fn_ptr_map :
             /\ ReachedJIT
             /\ s \in ModuleFunctions(Decls[idx])
             /\ m_fn_ptr_map'[s] = SlotName(s)
       /\ ReachedJIT => ModuleFunctions(Decls[idx]) \subseteq DOMAIN m_fn_ptr_map'
       /\ \A m \in jit_modules' \ jit_modules : \A c \in m.calls :
             c.target \in m.functions
                => c.indirect /\ c.slot = m_fn_ptr_map'[c.target]]_vars

\* A recursive function defined in one turn was redefined in the next: its entry
\* and slot are those of the first definition, the slot holds the new address, and
\* the calls of both units to the function go through that slot.
C23_Witness ==
    /\ last.outcome = "compiled"
    /\ last.linked
    /\ last.decl.body = 3
    /\ mangleEntity(last.decl) \in last.decl.calls
    /\ LET s == mangleEntity(last.decl)
       IN  /\ m_fn_ptr_map[s] = SlotName(s)
           /\ jit_mem[m_fn_ptr_map[s]] = 3
           /\ \E m1, m2 \in jit_modules :
                 /\ m1.body = 2 /\ m2.body = 3
                 /\ s \in m1.functions /\ s \in m2.functions
                 /\ \E c1 \in m1.calls, c2 \in m2.calls :
                       /\ c1.target = s /\ c2.target = s
                       /\ c1.indirect /\ c2.indirect
                       /\ c1.slot = c2.slot

====
